---- MODULE Spec2Model ----
(***************************************************************************)
(* Model of flow_log_analyzer.py: FlowLogAnalyzer loads a lookup table,    *)
(* streams a flow log line by line into two aggregates and writes a        *)
(* report; main() turns the outcome into the process exit code.            *)
(*                                                                         *)
(* A Python str is a sequence of one-character strings, so that lower(),   *)
(* split(), int() and the f-string formatting are computed, not assumed.   *)
(* A Python dict is a sequence of <<key, value>> pairs in insertion order. *)
(***************************************************************************)
EXTENDS Integers, Sequences, FiniteSets, TLC

\* ------------------------------------------------------------------ bounds

\* Most lines the flow log holds.
MaxLines == 3

\* Most rows that follow the header row of the lookup file.
MaxRows == 2

\* -------------------------------------------------------------- Python str

UpperChars == <<"A", "B", "C", "D", "E", "F", "G", "H", "I", "J", "K", "L", "M",
                "N", "O", "P", "Q", "R", "S", "T", "U", "V", "W", "X", "Y", "Z">>

LowerChars == <<"a", "b", "c", "d", "e", "f", "g", "h", "i", "j", "k", "l", "m",
                "n", "o", "p", "q", "r", "s", "t", "u", "v", "w", "x", "y", "z">>

DigitChars == <<"0", "1", "2", "3", "4", "5", "6", "7", "8", "9">>

\* The characters str.split() and str.strip() treat as whitespace.
Whitespace == {" ", "\t", "\n", "\r"}

\* Python's None: no str (a sequence of one-character strings) equals it.
None == <<"None">>

Range(s) == {s[i] : i \in DOMAIN s}

LowerChar(c) ==
    IF \E i \in DOMAIN UpperChars : UpperChars[i] = c
    THEN LowerChars[CHOOSE i \in DOMAIN UpperChars : UpperChars[i] = c]
    ELSE c

\* str.lower()
StrLower(s) == [i \in 1..Len(s) |-> LowerChar(s[i])]

RECURSIVE Concat(_)
\* "".join(parts)
Concat(parts) ==
    IF parts = <<>> THEN <<>> ELSE Head(parts) \o Concat(Tail(parts))

RECURSIVE LStrip(_)
LStrip(s) ==
    IF s # <<>> /\ Head(s) \in Whitespace THEN LStrip(Tail(s)) ELSE s

RECURSIVE RStrip(_)
RStrip(s) ==
    IF s # <<>> /\ s[Len(s)] \in Whitespace
    THEN RStrip(SubSeq(s, 1, Len(s) - 1))
    ELSE s

\* str.strip()
Strip(s) == RStrip(LStrip(s))

RECURSIVE SplitFrom(_, _, _, _)
SplitFrom(s, i, cur, acc) ==
    IF i > Len(s)
    THEN IF cur = <<>> THEN acc ELSE Append(acc, cur)
    ELSE IF s[i] \in Whitespace
         THEN SplitFrom(s, i + 1, <<>>, IF cur = <<>> THEN acc ELSE Append(acc, cur))
         ELSE SplitFrom(s, i + 1, Append(cur, s[i]), acc)

\* str.split(): the maximal runs of non-whitespace characters
Split(s) == SplitFrom(s, 1, <<>>, <<>>)

DigitVal(c) == (CHOOSE i \in DOMAIN DigitChars : DigitChars[i] = c) - 1

RECURSIVE DigitsValue(_, _)
DigitsValue(s, acc) ==
    IF s = <<>> THEN acc
    ELSE IF Head(s) = "_" THEN DigitsValue(Tail(s), acc)
         ELSE DigitsValue(Tail(s), 10 * acc + DigitVal(Head(s)))

\* int(tok) for a token without whitespace: an optional sign, then decimal
\* digits, single underscores allowed between digits; anything else raises
\* ValueError (ok = FALSE).
ParseInt(tok) ==
    LET signed == tok # <<>> /\ Head(tok) \in {"+", "-"}
        body   == IF signed THEN Tail(tok) ELSE tok
        wellFormed ==
            /\ body # <<>>
            /\ \A i \in DOMAIN body : body[i] \in Range(DigitChars) \cup {"_"}
            /\ body[1] # "_"
            /\ body[Len(body)] # "_"
            /\ \A i \in 1..(Len(body) - 1) : ~(body[i] = "_" /\ body[i + 1] = "_")
    IN  IF wellFormed
        THEN [ok |-> TRUE,
              val |-> IF signed /\ Head(tok) = "-"
                      THEN 0 - DigitsValue(body, 0)
                      ELSE DigitsValue(body, 0)]
        ELSE [ok |-> FALSE, val |-> 0]

RECURSIVE NatToStr(_)
NatToStr(n) ==
    IF n < 10 THEN <<DigitChars[n + 1]>>
    ELSE Append(NatToStr(n \div 10), DigitChars[(n % 10) + 1])

\* str(n), as the f-strings of write_output format a count
IntToStr(n) == IF n < 0 THEN <<"-">> \o NatToStr(0 - n) ELSE NatToStr(n)

\* ------------------------------------------------------------- Python dict

DictKeys(d) == [i \in 1..Len(d) |-> d[i][1]]

DictHas(d, k) == \E i \in DOMAIN d : d[i][1] = k

\* d.get(k, default)
DictGet(d, k, default) ==
    IF DictHas(d, k) THEN d[CHOOSE i \in DOMAIN d : d[i][1] = k][2] ELSE default

\* DictSet with an updated entry moved to the end.
DictSet_MoveToEnd(d, k, v) ==
    Append(SelectSeq(d, LAMBDA e : e[1] # k), <<k, v>>)

\* d[k] = v: an entry keeps its place when updated, a new one goes last.
DictSet(d, k, v) ==
    IF DictHas(d, k)
    THEN [i \in 1..Len(d) |-> IF d[i][1] = k THEN <<k, v>> ELSE d[i]]
    ELSE Append(d, <<k, v>>)

RECURSIVE DictSum(_)
\* sum(d.values())
DictSum(d) == IF d = <<>> THEN 0 ELSE Head(d)[2] + DictSum(Tail(d))

\* ------------------------------------------------- FlowLogAnalyzer: data

Tcp == <<"t", "c", "p">>

Udp == <<"u", "d", "p">>

Icmp == <<"i", "c", "m", "p">>

\* PROTOCOL_MAP with the names of 6 and 17 exchanged.
PROTOCOL_MAP_Swapped(n) ==
    CASE n = 6 -> Udp
      [] n = 17 -> Tcp
      [] n = 1 -> Icmp
      [] OTHER -> None

\* PROTOCOL_MAP.get(n)
PROTOCOL_MAP(n) ==
    CASE n = 6 -> Tcp
      [] n = 17 -> Udp
      [] n = 1 -> Icmp
      [] OTHER -> None

Untagged == <<"U", "n", "t", "a", "g", "g", "e", "d">>

Accept == <<"A", "C", "C", "E", "P", "T">>

Ok == <<"O", "K">>

\* The field count below which _process_line skips a line.
MinFields == 14

\* ------------------------------------------------------------------ errors

NoError == [type |-> "None", filename |-> "None"]

Raised(type, filename) == [type |-> type, filename |-> filename]

\* --------------------------------------------------- load_lookup_table

\* What csv.reader yields for a line it cannot parse: csv.Error is raised
\* when the reader reaches it.
CsvErrorRow == <<<<"_csv.Error">>>>

RECURSIVE LoadRowsFirstWins(_, _)
\* LoadRows keeping the first row of a key instead of the last.
LoadRowsFirstWins(table, rows) ==
    IF rows = <<>> THEN [table |-> table, error |-> NoError]
    ELSE IF Head(rows) = CsvErrorRow
         THEN [table |-> table, error |-> Raised("csv.Error", "lookup_file")]
         ELSE IF Len(Head(rows)) = 3
                 /\ ~DictHas(table, <<StrLower(Head(rows)[1]), StrLower(Head(rows)[2])>>)
              THEN LoadRowsFirstWins(
                       DictSet(table,
                               <<StrLower(Head(rows)[1]), StrLower(Head(rows)[2])>>,
                               Head(rows)[3]),
                       Tail(rows))
              ELSE LoadRowsFirstWins(table, Tail(rows))

RECURSIVE LoadRows(_, _)
\* for row in reader: if len(row) == 3: lookup_table[(lower, lower)] = tag
LoadRows(table, rows) ==
    IF rows = <<>> THEN [table |-> table, error |-> NoError]
    ELSE IF Head(rows) = CsvErrorRow
         THEN [table |-> table, error |-> Raised("csv.Error", "lookup_file")]
         ELSE IF Len(Head(rows)) = 3
              THEN LoadRows(
                       DictSet(table,
                               <<StrLower(Head(rows)[1]), StrLower(Head(rows)[2])>>,
                               Head(rows)[3]),
                       Tail(rows))
              ELSE LoadRows(table, Tail(rows))

\* load_lookup_table on a file [exists, readable, rows], rows being what
\* csv.reader yields: the table it leaves in self.lookup_table and the
\* exception it raises, if any.
load_lookup_table(table, file) ==
    IF ~file.exists
    THEN [table |-> table, error |-> Raised("FileNotFoundError", "lookup_file")]
    ELSE IF ~file.readable
    THEN [table |-> table, error |-> Raised("PermissionError", "lookup_file")]
    ELSE IF file.rows = <<>>
    THEN [table |-> table, error |-> Raised("StopIteration", "None")]
    ELSE IF Head(file.rows) = CsvErrorRow
    THEN [table |-> table, error |-> Raised("csv.Error", "lookup_file")]
    ELSE LoadRows(table, Tail(file.rows))

\* -------------------------------------------------------- _process_line

\* PassesFilter without the test of the last field.
PassesFilter_NoStatusTest(fields) ==
    ~(\/ Len(fields) < MinFields
      \/ fields[Len(fields) - 1] # Accept)

\* not (len(fields) < 14 or fields[-2] != 'ACCEPT' or fields[-1] != 'OK')
PassesFilter(fields) ==
    ~(\/ Len(fields) < MinFields
      \/ fields[Len(fields) - 1] # Accept
      \/ fields[Len(fields)] # Ok)

\* The protocol name of lines 87-93, for a token int() accepts.
ResolveProtocol(tok) ==
    LET protocol == PROTOCOL_MAP(ParseInt(tok).val)
    IN  IF protocol = None THEN StrLower(tok) ELSE StrLower(protocol)

\* if tag: (None and the empty str are false)
Truthy(tag) == tag # None /\ tag # <<>>

\* _process_line(line) on the given table and aggregates: whether it raised,
\* whether it returned a tuple (result), and the aggregates it leaves.
process_line(line, table, tags, ports) ==
    LET fields == Split(Strip(line))
    IN  IF ~PassesFilter(fields)
        THEN [error |-> NoError, result |-> FALSE,
              tag_counts |-> tags, port_protocol_counts |-> ports]
        ELSE IF ~ParseInt(fields[8]).ok
        THEN [error |-> Raised("ValueError", "None"), result |-> FALSE,
              tag_counts |-> tags, port_protocol_counts |-> ports]
        ELSE LET key == <<fields[7], ResolveProtocol(fields[8])>>
                 tag == DictGet(table, key, None)
                 counted == IF Truthy(tag) THEN tag ELSE Untagged
             IN  [error |-> NoError, result |-> TRUE,
                  tag_counts |-> DictSet(tags, counted, DictGet(tags, counted, 0) + 1),
                  port_protocol_counts |->
                      DictSet(ports, key, DictGet(ports, key, 0) + 1)]

\* --------------------------------------------------------- write_output

TagRow(entry) == Concat(<<entry[1], <<",">>, IntToStr(entry[2]), <<"\n">>>>)

PortRow(entry) ==
    Concat(<<entry[1][1], <<",">>, entry[1][2], <<",">>, IntToStr(entry[2]), <<"\n">>>>)

\* The sequence of f.write() arguments of write_output.
Report(tags, ports) ==
    <<<<"T", "a", "g", " ", "C", "o", "u", "n", "t", "s", ":", "\n">>,
      <<"T", "a", "g", ",", "C", "o", "u", "n", "t", "\n">>>>
    \o [i \in 1..Len(tags) |-> TagRow(tags[i])]
    \o <<<<"\n", "P", "o", "r", "t", "/", "P", "r", "o", "t", "o", "c", "o", "l", " ", "C", "o", "m", "b", "i", "n", "a", "t", "i", "o", "n", " ", "C", "o", "u", "n", "t", "s", ":", "\n">>,
         <<"P", "o", "r", "t", ",", "P", "r", "o", "t", "o", "c", "o", "l", ",", "C", "o", "u", "n", "t", "\n">>>>
    \o [i \in 1..Len(ports) |-> PortRow(ports[i])]

\* ------------------------------------------------ run_analysis and main

\* NextStage going on to the next stage whatever was raised.
NextStage_SwallowsError(stage, error) ==
    CASE stage = "LOADING" -> "PROCESSING"
      [] stage = "PROCESSING" -> "WRITING"
      [] stage = "WRITING" -> "DONE"

\* run_analysis runs the stages in sequence; an exception leaves it at once.
NextStage(stage, error) ==
    IF error # NoError THEN "FAILED"
    ELSE CASE stage = "LOADING" -> "PROCESSING"
           [] stage = "PROCESSING" -> "WRITING"
           [] stage = "WRITING" -> "DONE"

\* ExitCode without the sys.exit(1) of the handler.
ExitCode_AlwaysZero(error) == 0

\* main: sys.exit(1) in the handler of Exception, else the interpreter's 0.
ExitCode(error) == IF error # NoError THEN 1 ELSE 0

NotExited == -1

\* write_output: what the output file holds afterwards (None: not created)
\* and the exception raised, if open() fails with the given outcome.
write_output(outcome, tags, ports) ==
    IF outcome = "ok"
    THEN [content |-> Report(tags, ports), error |-> NoError]
    ELSE [content |-> None, error |-> Raised(outcome, "output_file")]

\* ------------------------------------------------------------------ inputs

SeqsUpTo(S, n) == UNION {[1..k -> S] : k \in 0..n}

HeaderRow == <<<<"d", "s", "t", "p", "o", "r", "t">>, <<"p", "r", "o", "t", "o", "c", "o", "l">>, <<"t", "a", "g">>>>

RowWeb == <<<<"s", "s", "h">>, <<"t", "c", "p">>, <<"w", "e", "b">>>>

\* The key of RowWeb in upper case, the tag in another case too.
RowWebUpper == <<<<"S", "S", "H">>, <<"T", "C", "P">>, <<"W", "e", "b">>>>

\* A row whose tag field is empty.
RowGreNoTag == <<<<"8", "0">>, <<"4", "7">>, <<>>>>

\* A row of two fields.
RowShort == <<<<"s", "s", "h">>, <<"t", "c", "p">>>>

LookupRows == {RowWeb, RowWebUpper, RowGreNoTag, RowShort}

LookupFiles ==
    {[exists |-> FALSE, readable |-> FALSE, rows |-> <<>>],
     [exists |-> TRUE, readable |-> FALSE, rows |-> <<>>],
     [exists |-> TRUE, readable |-> TRUE, rows |-> <<>>],
     [exists |-> TRUE, readable |-> TRUE, rows |-> <<CsvErrorRow>>]}
    \cup {[exists |-> TRUE, readable |-> TRUE, rows |-> <<HeaderRow>> \o body] :
              body \in SeqsUpTo(LookupRows, MaxRows)}
    \cup {[exists |-> TRUE, readable |-> TRUE,
           rows |-> <<HeaderRow>> \o body \o <<CsvErrorRow>>] :
              body \in SeqsUpTo(LookupRows, MaxRows - 1)}

RECURSIVE Join(_, _)
\* sep.join(fields)
Join(fields, sep) ==
    IF fields = <<>> THEN <<>>
    ELSE IF Len(fields) = 1 THEN Head(fields)
         ELSE Head(fields) \o sep \o Join(Tail(fields), sep)

Port80 == <<"8", "0">>

PortSsh == <<"s", "s", "h">>

PortSshUpper == <<"S", "S", "H">>

Reject == <<"R", "E", "J", "E", "C", "T">>

NoData == <<"N", "O", "D", "A", "T", "A">>

\* The fourteen fields of a flow log record (version 2), fields 7 and 8
\* being the destination port and the protocol number.
FlowFields(dstport, protocol, action, status) ==
    <<<<"2">>, <<"1">>, <<"e">>, <<"s">>, <<"d">>, <<"9">>, dstport, protocol,
      <<"5">>, <<"7">>, <<"0">>, <<"0">>, action, status>>

TextLine(fields) == Join(fields, <<" ">>) \o <<"\n">>

LineSshTcp == TextLine(FlowFields(PortSsh, <<"6">>, Accept, Ok))

\* Leading blanks, tabs between the fields, a CR LF line end.
LineSshUpperTcp ==
    <<" ", " ">> \o Join(FlowFields(PortSshUpper, <<"6">>, Accept, Ok), <<"\t">>)
    \o <<"\r", "\n">>

Line80Gre == TextLine(FlowFields(Port80, <<"4", "7">>, Accept, Ok))

\* Fifteen fields: one more before the action.
Line80Udp ==
    LET f == FlowFields(Port80, <<"1", "7">>, Accept, Ok)
    IN  TextLine(SubSeq(f, 1, 12) \o <<<<"x">>>> \o SubSeq(f, 13, 14))

Line80Icmp == TextLine(FlowFields(Port80, <<"0", "1">>, Accept, Ok))

\* Passes the filter; its protocol field is no integer.
LineBadProtocol == TextLine(FlowFields(Port80, Udp, Accept, Ok))

LineReject == TextLine(FlowFields(Port80, Udp, Reject, Ok))

LineNoData == TextLine(FlowFields(Port80, <<"6">>, Accept, NoData))

\* Thirteen fields, the last two ACCEPT OK.
LineShort ==
    LET f == FlowFields(Port80, <<"6">>, Accept, Ok)
    IN  TextLine(SubSeq(f, 1, 11) \o SubSeq(f, 13, 14))

LogLines ==
    {LineSshTcp, LineSshUpperTcp, Line80Gre, Line80Udp, Line80Icmp, LineBadProtocol,
     LineReject, LineNoData, LineShort}

\* How open() of the flow log ends.
OpenOutcomes == {"ok", "FileNotFoundError", "PermissionError"}

\* How open() of the output file ends.
WriteOutcomes == {"ok", "PermissionError"}

\* ------------------------------------------------------------------- state

VARIABLES
    pc,                    \* the stage run_analysis is in, or DONE / FAILED
    error,                 \* the exception that left run_analysis, or NoError
    exit_code,             \* the process exit code, NotExited while running
    lookup_file,           \* the lookup file: [exists, readable, rows]
    lookup_table,          \* self.lookup_table
    log_open,              \* process_flow_logs holds the flow log open
    lines_read,            \* lines of the flow log read so far
    line,                  \* the line process_flow_logs read last
    line_count,            \* line_count of process_flow_logs
    tag_counts,            \* self.tag_counts
    port_protocol_counts,  \* self.port_protocol_counts
    output_file            \* what the output file holds (None: not created)

vars ==
    <<pc, error, exit_code, lookup_file, lookup_table, log_open, lines_read,
      line, line_count, tag_counts, port_protocol_counts, output_file>>

\* FlowLogAnalyzer.__init__, called by main
Init ==
    /\ pc = "LOADING"
    /\ error = NoError
    /\ exit_code = NotExited
    /\ lookup_file \in LookupFiles
    /\ lookup_table = <<>>
    /\ log_open = FALSE
    /\ lines_read = 0
    /\ line = None
    /\ line_count = 0
    /\ tag_counts = <<>>
    /\ port_protocol_counts = <<>>
    /\ output_file = None

LoadLookupTable ==
    /\ pc = "LOADING"
    /\ \E r \in {load_lookup_table(lookup_table, lookup_file)} :
          /\ lookup_table' = r.table
          /\ error' = r.error
          /\ pc' = NextStage(pc, r.error)
    /\ UNCHANGED <<exit_code, lookup_file, log_open, lines_read, line, line_count,
                   tag_counts, port_protocol_counts, output_file>>

\* process_flow_logs up to the loop: line_count = 0 and open(self.log_file)
OpenFlowLog ==
    /\ pc = "PROCESSING"
    /\ ~log_open
    /\ \E outcome \in OpenOutcomes :
          \E e \in {IF outcome = "ok" THEN NoError ELSE Raised(outcome, "log_file")} :
              /\ error' = e
              /\ log_open' = (e = NoError)
              /\ pc' = IF e = NoError THEN pc ELSE NextStage(pc, e)
    /\ line_count' = 0
    /\ UNCHANGED <<exit_code, lookup_file, lookup_table, lines_read, line,
                   tag_counts, port_protocol_counts, output_file>>

\* ProcessLine counting every line read in line_count, skipped ones too.
ProcessLine_CountsEveryLine ==
    /\ pc = "PROCESSING"
    /\ log_open
    /\ lines_read < MaxLines
    /\ \E l \in LogLines :
          \E r \in {process_line(l, lookup_table, tag_counts, port_protocol_counts)} :
              /\ line' = l
              /\ tag_counts' = r.tag_counts
              /\ port_protocol_counts' = r.port_protocol_counts
              /\ line_count' = line_count + 1
              /\ error' = r.error
              /\ log_open' = (r.error = NoError)
              /\ pc' = IF r.error = NoError THEN pc ELSE NextStage(pc, r.error)
    /\ lines_read' = lines_read + 1
    /\ UNCHANGED <<exit_code, lookup_file, lookup_table, output_file>>

\* One iteration of the loop of process_flow_logs: _process_line(line), then
\* line_count += 1 if it returned a result.
ProcessLine ==
    /\ pc = "PROCESSING"
    /\ log_open
    /\ lines_read < MaxLines
    /\ \E l \in LogLines :
          \E r \in {process_line(l, lookup_table, tag_counts, port_protocol_counts)} :
              /\ line' = l
              /\ tag_counts' = r.tag_counts
              /\ port_protocol_counts' = r.port_protocol_counts
              /\ line_count' = IF r.result THEN line_count + 1 ELSE line_count
              /\ error' = r.error
              /\ log_open' = (r.error = NoError)
              /\ pc' = IF r.error = NoError THEN pc ELSE NextStage(pc, r.error)
    /\ lines_read' = lines_read + 1
    /\ UNCHANGED <<exit_code, lookup_file, lookup_table, output_file>>

\* The loop of process_flow_logs ends at the end of the file.
EndOfFlowLog ==
    /\ pc = "PROCESSING"
    /\ log_open
    /\ log_open' = FALSE
    /\ pc' = NextStage(pc, NoError)
    /\ UNCHANGED <<error, exit_code, lookup_file, lookup_table, lines_read, line,
                   line_count, tag_counts, port_protocol_counts, output_file>>

\* WriteOutput emptying the aggregates as it writes them.
WriteOutput_DrainsAggregates ==
    /\ pc = "WRITING"
    /\ \E outcome \in WriteOutcomes :
          \E r \in {write_output(outcome, tag_counts, port_protocol_counts)} :
              /\ output_file' = r.content
              /\ error' = r.error
              /\ pc' = NextStage(pc, r.error)
              /\ tag_counts' = IF outcome = "ok" THEN <<>> ELSE tag_counts
              /\ port_protocol_counts' =
                    IF outcome = "ok" THEN <<>> ELSE port_protocol_counts
    /\ UNCHANGED <<exit_code, lookup_file, lookup_table, log_open, lines_read,
                   line, line_count>>

\* write_output, called by run_analysis after process_flow_logs returned
WriteOutput ==
    /\ pc = "WRITING"
    /\ \E outcome \in WriteOutcomes :
          \E r \in {write_output(outcome, tag_counts, port_protocol_counts)} :
              /\ output_file' = r.content
              /\ error' = r.error
              /\ pc' = NextStage(pc, r.error)
    /\ UNCHANGED <<exit_code, lookup_file, lookup_table, log_open, lines_read,
                   line, line_count, tag_counts, port_protocol_counts>>

\* main after run_analysis returned or raised
Exit ==
    /\ pc \in {"DONE", "FAILED"}
    /\ exit_code = NotExited
    /\ exit_code' = ExitCode(error)
    /\ UNCHANGED <<pc, error, lookup_file, lookup_table, log_open, lines_read,
                   line, line_count, tag_counts, port_protocol_counts, output_file>>

Next ==
    \/ LoadLookupTable
    \/ OpenFlowLog
    \/ ProcessLine
    \/ EndOfFlowLog
    \/ WriteOutput
    \/ Exit

Spec == Init /\ [][Next]_vars

\* ------------------------------------------------------ reading the steps

\* A step of the loop of process_flow_logs: one more line was read.
LineRead == lines_read' = lines_read + 1

\* The fields of the line the step read. The formulas below bind them once,
\* as \A fields \in {StepFields}, so that the split is computed once per step.
StepFields == Split(Strip(line'))

\* The acceptance filter as the specification words it: at least fourteen
\* fields, the second-to-last "ACCEPT", the last "OK".
FilterPasses(fields) ==
    /\ Len(fields) >= 14
    /\ fields[Len(fields) - 1] = <<"A", "C", "C", "E", "P", "T">>
    /\ fields[Len(fields)] = <<"O", "K">>

\* A line of these fields passes the filter and its 8th token parses as an
\* integer: the lines _process_line counts.
Counted(fields) == FilterPasses(fields) /\ ParseInt(fields[8]).ok

Keys(d) == Range(DictKeys(d))

\* From d to e the entry of k went up by exactly 1 (from 0 if new) and no
\* other entry was added, removed or changed.
OnlyIncremented(d, e, k) ==
    /\ DictHas(e, k)
    /\ DictGet(e, k, 0) = DictGet(d, k, 0) + 1
    /\ \A j \in (Keys(d) \cup Keys(e)) \ {k} :
          DictHas(d, j) /\ DictHas(e, j) /\ DictGet(e, j, 0) = DictGet(d, j, 0)

ExactlyOneIncremented(d, e) == \E k \in Keys(e) : OnlyIncremented(d, e, k)

AggregatesUnchanged ==
    /\ tag_counts' = tag_counts
    /\ port_protocol_counts' = port_protocol_counts

\* ---------------------------------------------------------------------- C1

SumsAgree ==
    /\ DictSum(tag_counts) = line_count
    /\ DictSum(port_protocol_counts) = line_count

\* C1 as stated: every line that passes the acceptance filter raises exactly
\* one entry of each aggregate by exactly 1 and is counted in line_count.
C1_EveryAcceptedLineCounts ==
    [][LineRead =>
          \A fields \in {StepFields} :
              FilterPasses(fields) =>
                 /\ ExactlyOneIncremented(tag_counts, tag_counts')
                 /\ ExactlyOneIncremented(port_protocol_counts,
                                          port_protocol_counts')
                 /\ line_count' = line_count + 1]_vars

\* C1 as amended: at every point of the run the values of tag_counts and of
\* port_protocol_counts both sum to line_count; line_count goes up by 1, and
\* exactly one entry of each aggregate goes up by exactly 1, on each line
\* that passes the filter and whose protocol field parses as an integer; on
\* any other line read, line_count and both aggregates stay as they are.
C1_SumInvariant ==
    /\ SumsAgree
    /\ [][/\ SumsAgree'
          /\ LineRead =>
                \A fields \in {StepFields} :
                    IF Counted(fields)
                    THEN /\ ExactlyOneIncremented(tag_counts, tag_counts')
                         /\ ExactlyOneIncremented(port_protocol_counts,
                                                  port_protocol_counts')
                         /\ line_count' = line_count + 1
                    ELSE /\ AggregatesUnchanged
                         /\ line_count' = line_count]_vars

\* Two lines were counted, under two tags and two port/protocol keys, then
\* a line that passes the filter raised ValueError and ended the run.
C1_Witness ==
    /\ line_count = 2
    /\ Len(tag_counts) = 2
    /\ Len(port_protocol_counts) = 2
    /\ line = LineBadProtocol
    /\ pc = "FAILED"

\* ---------------------------------------------------------------------- C2

\* C2: a line that fails the acceptance filter (too few fields, action not
\* ACCEPT, status not OK), whatever its port and protocol fields hold,
\* leaves tag_counts, port_protocol_counts and lookup_table unchanged, is not
\* counted in line_count, raises nothing, and the loop goes on.
C2_RejectedLineChangesNothing ==
    [][LineRead =>
          \A fields \in {StepFields} :
              ~FilterPasses(fields) =>
                 /\ AggregatesUnchanged
                 /\ lookup_table' = lookup_table
                 /\ line_count' = line_count
                 /\ error' = NoError
                 /\ log_open'
                 /\ pc' = "PROCESSING"]_vars

\* After a counted line, a rejected line whose protocol field is no integer
\* was read, and the loop is still running.
C2_Witness ==
    /\ line = LineReject
    /\ ~ParseInt(Split(Strip(line))[8]).ok
    /\ line_count >= 1
    /\ tag_counts # <<>>
    /\ pc = "PROCESSING"
    /\ log_open

\* ---------------------------------------------------------------------- C3

\* The key _process_line builds for a line of these fields.
KeyOf(fields) == <<fields[7], ResolveProtocol(fields[8])>>

\* C3 as stated: on a counted line, the entry of tag_counts that goes up is
\* the tag the lookup table stores for the line's key when the key is
\* present (whatever that tag is, the empty string included), and
\* "Untagged" when the key is absent.
C3_TagResolution ==
    [][LineRead =>
          \A fields \in {StepFields} :
              Counted(fields) =>
                 \A key \in {KeyOf(fields)} :
                     IF DictHas(lookup_table, key)
                     THEN OnlyIncremented(tag_counts, tag_counts',
                                          DictGet(lookup_table, key, None))
                     ELSE OnlyIncremented(tag_counts, tag_counts', Untagged)]_vars

\* ---------------------------------------------------------------------- C4

\* The protocol name the specification gives for a token that parses as n.
SpecProtocol(tok) ==
    LET n == ParseInt(tok).val
    IN  IF n = 6 THEN <<"t", "c", "p">>
        ELSE IF n = 17 THEN <<"u", "d", "p">>
        ELSE IF n = 1 THEN <<"i", "c", "m", "p">>
        ELSE StrLower(tok)

\* C4: on a line that passes the filter and whose 8th token parses as an
\* integer n, the protocol is tcp, udp or icmp for n = 6, 17, 1 and else
\* the token itself, lowercased; port_protocol_counts[(port, protocol)]
\* goes up by 1, "Untagged" goes up by 1 when the lookup has no such key,
\* and the run goes on.
C4_ProtocolResolution ==
    [][LineRead =>
          \A fields \in {StepFields} :
              Counted(fields) =>
                 \A key \in {<<fields[7], SpecProtocol(fields[8])>>} :
                     /\ OnlyIncremented(port_protocol_counts,
                                        port_protocol_counts', key)
                     /\ ~DictHas(lookup_table, key) =>
                           OnlyIncremented(tag_counts, tag_counts', Untagged)
                     /\ error' = NoError
                     /\ pc' = "PROCESSING"]_vars

\* Lines of protocol 47, 17 and 01 were counted under ("80", "47"),
\* ("80", "udp") and ("80", "icmp"), all three untagged.
C4_Witness ==
    /\ DictGet(port_protocol_counts, <<Port80, <<"4", "7">>>>, 0) = 1
    /\ DictGet(port_protocol_counts, <<Port80, Udp>>, 0) = 1
    /\ DictGet(port_protocol_counts, <<Port80, Icmp>>, 0) = 1
    /\ ~DictHas(lookup_table, <<Port80, <<"4", "7">>>>)
    /\ DictGet(tag_counts, Untagged, 0) = 3
    /\ pc = "PROCESSING"

\* ---------------------------------------------------------------------- C5

StageOrder ==
    {<<"LOADING", "PROCESSING">>, <<"PROCESSING", "WRITING">>, <<"WRITING", "DONE">>}

StageFailure ==
    {<<"LOADING", "FAILED">>, <<"PROCESSING", "FAILED">>, <<"WRITING", "FAILED">>}

KeyOrderKept(d, e) ==
    /\ Len(e) \in {Len(d), Len(d) + 1}
    /\ SubSeq(DictKeys(e), 1, Len(d)) = DictKeys(d)
    /\ \A i, j \in DOMAIN e : i # j => e[i][1] # e[j][1]

\* The report holds, after the two heading rows of each section, one row
\* per entry of the section's aggregate, in the aggregate's order.
RowsFollowAggregates(report, tags, ports) ==
    /\ Len(report) = 4 + Len(tags) + Len(ports)
    /\ \A i \in DOMAIN tags :
          report[2 + i] = tags[i][1] \o <<",">> \o IntToStr(tags[i][2]) \o <<"\n">>
    /\ \A i \in DOMAIN ports :
          report[4 + Len(tags) + i] =
              ports[i][1][1] \o <<",">> \o ports[i][1][2] \o <<",">>
              \o IntToStr(ports[i][2]) \o <<"\n">>

\* C7: a key enters an aggregate at the end, when a line is first counted
\* under it, and never moves afterwards (a later increment keeps its
\* place); the report written holds exactly one row per key of each
\* aggregate, in that order. The report is thus a function of the lookup
\* table and the sequence of lines.
C7_ReportOrder ==
    [][/\ KeyOrderKept(tag_counts, tag_counts')
       /\ KeyOrderKept(port_protocol_counts, port_protocol_counts')
       /\ LineRead =>
             \A fields \in {StepFields} :
                 Counted(fields) =>
                    \A key \in {KeyOf(fields)} :
                        /\ DictHas(port_protocol_counts', key)
                        /\ ~DictHas(port_protocol_counts, key) =>
                              port_protocol_counts'[Len(port_protocol_counts')][1] = key
       /\ output_file' # output_file =>
             RowsFollowAggregates(output_file', tag_counts, port_protocol_counts)]_vars

\* The report was written after the lines ssh/6, 80/47, ssh/6: the key
\* counted first was incremented again after the second key came in, and
\* its row is still the first of its section, with count 2.
C7_Witness ==
    /\ pc = "DONE"
    /\ line = LineSshTcp
    /\ DictKeys(port_protocol_counts) = <<<<PortSsh, Tcp>>, <<Port80, <<"4", "7">>>>>>
    /\ port_protocol_counts[1][2] = 2
    /\ Len(tag_counts) = 2
    /\ tag_counts[1][2] = 2
    /\ Len(output_file) = 8
    /\ output_file[7] = <<"s", "s", "h", ",", "t", "c", "p", ",", "2", "\n">>

\* ---------------------------------------------------------------------- C8

\* The rows after the header that have exactly three fields.
ValidRows(rows) == {i \in 2..Len(rows) : Len(rows[i]) = 3}

RowKey(row) == <<StrLower(row[1]), StrLower(row[2])>>

\* The loader raised: the exception names the lookup file, or is the
\* StopIteration of next(reader) on an empty file.
LoaderFailed ==
    /\ pc = "FAILED"
    /\ error.filename = "lookup_file" \/ error.type = "StopIteration"

\* The loader returned without raising.
Loaded == pc # "LOADING" /\ ~LoaderFailed

\* C8: after a load that did not raise, lookup_table holds exactly one
\* entry per distinct (lowercased port, lowercased protocol) among the rows
\* after the first that have exactly three fields, its value the tag,
\* unchanged, of the last such row; the first row and the rows of any other
\* field count give no entry.
C8_LookupLoading ==
    Loaded =>
        \A rows \in {lookup_file.rows} :
        \A valid \in {ValidRows(rows)} :
        \A key \in {[i \in valid |-> RowKey(rows[i])]} :
            /\ \A i \in valid : DictHas(lookup_table, key[i])
            /\ \A e \in Range(lookup_table) :
                  /\ \E i \in valid : key[i] = e[1]
                  /\ \A i \in valid :
                        (key[i] = e[1] /\ \A j \in valid : key[j] = e[1] => j <= i)
                        => e[2] = rows[i][3]
            /\ \A i, j \in DOMAIN lookup_table :
                  i # j => lookup_table[i][1] # lookup_table[j][1]

\* A file of a header and two rows of one key in different letter case
\* loaded as a single entry, lowercased, holding the later row's tag.
C8_Witness ==
    /\ lookup_file.rows = <<HeaderRow, RowWeb, RowWebUpper>>
    /\ lookup_table = <<<<<<PortSsh, Tcp>>, <<"W", "e", "b">>>>>>
    /\ pc = "PROCESSING"

\* ---------------------------------------------------------------------- C9

\* C9 as stated, for the rows that carry a tag: when a counted line's port
\* and protocol equal, up to letter case, those of a lookup row (the last
\* of its key), the line is counted under that row's tag.
C9_CaseInsensitiveMatch ==
    [][LineRead =>
          \A fields \in {StepFields} :
              Counted(fields) =>
                 \A i \in ValidRows(lookup_file.rows) :
                     LET row == lookup_file.rows[i]
                     IN  (/\ row[3] # <<>>
                          /\ StrLower(row[1]) = StrLower(fields[7])
                          /\ StrLower(row[2]) = StrLower(ResolveProtocol(fields[8]))
                          /\ \A j \in ValidRows(lookup_file.rows) :
                                RowKey(lookup_file.rows[j]) = RowKey(row) => j <= i)
                         => OnlyIncremented(tag_counts, tag_counts', row[3])]_vars

\* --------------------------------------------------------------------- C10

\* From d to e no key was removed and no count went down.
Grown(d, e) ==
    \A k \in Keys(d) : DictHas(e, k) /\ DictGet(e, k, 0) >= DictGet(d, k, 0)

\* C10: lookup_table changes only in LOADING; both aggregates are empty
\* when PROCESSING starts, change only in PROCESSING, where they only grow,
\* and hold no count below 1; write_output and a failing line leave them
\* as they are.
C10_Lifecycle ==
    [][/\ pc # "LOADING" => lookup_table' = lookup_table
       /\ pc = "LOADING" /\ pc' = "PROCESSING" =>
             tag_counts' = <<>> /\ port_protocol_counts' = <<>>
       /\ pc # "PROCESSING" => AggregatesUnchanged
       /\ Grown(tag_counts, tag_counts')
       /\ Grown(port_protocol_counts, port_protocol_counts')
       /\ \A e \in Range(tag_counts') \cup Range(port_protocol_counts') : e[2] >= 1
       /\ pc = "PROCESSING" /\ pc' = "FAILED" => AggregatesUnchanged]_vars

\* Two lines were counted, then a line raised ValueError: the counts of
\* the two are still there after the failure.
C10_Witness ==
    /\ pc = "FAILED"
    /\ error.type = "ValueError"
    /\ DictSum(tag_counts) = 2
    /\ DictSum(port_protocol_counts) = 2
    /\ lookup_table # <<>>

====
